---- MODULE Spec2Model ----
(***************************************************************************)
(* RunwayRadar (src/app.py): one run of the script, from the uploaded      *)
(* files to the five output tables.                                        *)
(*                                                                         *)
(* Dates are day ordinals (the values pd.to_datetime yields for calendar   *)
(* dates, counted in days), amounts are integers, and a decimal the code   *)
(* rounds to k places is kept as the integer number of 10^-k units.        *)
(* A mean is kept as the pair (sum, count) until the code rounds it.       *)
(***************************************************************************)
EXTENDS Integers, Sequences, FiniteSets, TLC

VARIABLES
    transactions_file,  \* the uploaded transactions CSV (line 27)
    invoices_file,      \* the uploaded invoices CSV (line 34)
    starting_balance,   \* line 43
    threshold,          \* line 49
    pc,                 \* position of the script
    halt,               \* "none", "st.stop" (lines 64, 72) or "exception"
    df,                 \* the transactions with signed_amount (lines 67-79)
    forecast_df,        \* lines 86-89
    risk_days,          \* line 92
    top_expense_days,   \* lines 95-101
    recurring_df,       \* lines 104-167
    lowest_balance,     \* line 182 (a one-element sequence once computed)
    late_view,          \* what the late-paying-clients tab shows
    late_means,         \* late_stats after the filter of line 289
    late_stats          \* late_stats after the rounding of line 294

vars == <<transactions_file, invoices_file, starting_balance, threshold, pc,
          halt, df, forecast_df, risk_days, top_expense_days, recurring_df,
          lowest_balance, late_view, late_means, late_stats>>

(***************************************************************************)
(* Bounds of the explored inputs.                                          *)
(***************************************************************************)
MaxRows == 2        \* rows of a freely enumerated transaction ledger
MaxPay == 4         \* payments of the vendor in a recurring-payment ledger
MaxDays == 12       \* expense days in a long ledger
MaxInvRows == 2     \* rows of a freely enumerated invoice ledger
MaxBulk == 20       \* on-time invoices in a bulk invoice ledger

(***************************************************************************)
(* Program constants.                                                      *)
(***************************************************************************)
HorizonDays == 89   \* pd.Timedelta(days=89)
TopN == 10          \* .head(10)
MinGroup == 3       \* len(group) < 3
MinGap == 5         \* avg_gap < 5
MaxGap == 45        \* avg_gap > 45

NaN == "NaN"        \* a missing label (read_csv reads an empty field as NaN)
NaT == -1           \* a missing paid_date (errors="coerce")

required_cols == {"date", "type", "amount"}
required_invoice_cols == {"client", "issue_date", "due_date", "paid_date", "amount"}

\* groupby iterates its keys in sorted order
VendorOrder == <<"AWS", "Rent">>
ClientOrder == <<"Acme", "Zed">>

(***************************************************************************)
(* Arithmetic helpers.                                                     *)
(***************************************************************************)
Abs(x) == IF x < 0 THEN -x ELSE x

\* floor of n/d for d > 0
FloorDiv(n, d) == IF n >= 0 THEN n \div d ELSE -((-n + d - 1) \div d)

\* round(n/d) to the nearest integer, ties to the even one (Python round, numpy rint)
RoundHalfEven(n, d) ==
    LET q == FloorDiv(n, d)
        r == n - q * d
    IN  IF 2 * r < d THEN q
        ELSE IF 2 * r > d THEN q + 1
        ELSE IF q % 2 = 0 THEN q ELSE q + 1

RECURSIVE SeqSum(_)
SeqSum(s) == IF s = <<>> THEN 0 ELSE s[1] + SeqSum(Tail(s))

\* str.lower() on the type labels of the explored ledgers
Lower(s) ==
    CASE s = "Expense" -> "expense"
      [] s = "EXPENSE" -> "expense"
      [] s = "Income" -> "income"
      [] OTHER -> s

(***************************************************************************)
(* Lines 76-79: the sign rule.                                             *)
(***************************************************************************)
SignedAmountNoLower(row) ==
    IF row.type = "expense" THEN -row.amount ELSE row.amount

SignedAmount(row) ==
    IF Lower(row.type) = "expense" THEN -row.amount ELSE row.amount

WithSignedAmount(rows) ==
    [i \in 1..Len(rows) |->
        [date |-> rows[i].date, type |-> rows[i].type, amount |-> rows[i].amount,
         client_or_vendor |-> rows[i].client_or_vendor,
         signed_amount |-> SignedAmount(rows[i])]]

(***************************************************************************)
(* Lines 82-89: the forecast.                                              *)
(***************************************************************************)
\* df["date"].min()
MinDate(d) ==
    CHOOSE m \in {d[i].date : i \in DOMAIN d} :
        \A i \in DOMAIN d : m <= d[i].date

\* pd.date_range(start, end, freq="D")
DateRangeOpenEnd(start, end) == [i \in 1..(end - start) |-> start + i - 1]

DateRange(start, end) == [i \in 1..(end - start + 1) |-> start + i - 1]

\* df.groupby("date")["signed_amount"].sum(): the keys and one key's sum
GroupDates(d) == {d[i].date : i \in DOMAIN d}

RECURSIVE GroupSum(_, _)
GroupSum(d, day) ==
    IF d = <<>> THEN 0
    ELSE (IF d[1].date = day THEN d[1].signed_amount ELSE 0) + GroupSum(Tail(d), day)

RECURSIVE GroupFirst(_, _)
GroupFirst(d, day) ==
    IF d = <<>> THEN 0
    ELSE IF d[1].date = day THEN d[1].signed_amount ELSE GroupFirst(Tail(d), day)

DailyNetFirst(d, date_range) ==
    [i \in 1..Len(date_range) |-> GroupFirst(d, date_range[i])]

\* .reindex(date_range, fill_value=0)
DailyNet(d, date_range) ==
    [i \in 1..Len(date_range) |->
        IF date_range[i] \in GroupDates(d) THEN GroupSum(d, date_range[i]) ELSE 0]

\* Series.cumsum()
CumSumShifted(s) ==
    LET cs[i \in 0..Len(s)] == IF i = 0 THEN 0 ELSE cs[i - 1] + s[i]
    IN  [i \in 1..Len(s) |-> cs[i - 1]]

CumSum(s) ==
    LET cs[i \in 0..Len(s)] == IF i = 0 THEN 0 ELSE cs[i - 1] + s[i]
    IN  [i \in 1..Len(s) |-> cs[i]]

BuildForecast(d, sb) ==
    LET start_date == MinDate(d)
        end_date == start_date + HorizonDays
        date_range == DateRange(start_date, end_date)
        daily_net == DailyNet(d, date_range)
        cum == CumSum(daily_net)
    IN  [i \in 1..Len(date_range) |->
            [date |-> date_range[i], daily_net |-> daily_net[i],
             balance |-> sb + cum[i]]]

(***************************************************************************)
(* Line 92: risk days.                                                     *)
(***************************************************************************)
RiskDays(f, thr) ==
    LET Below(r) == r.balance < thr
    IN  SelectSeq(f, Below)

(***************************************************************************)
(* Lines 95-101: the largest net-expense days.                             *)
(***************************************************************************)
WithAbsExpense(f) ==
    [i \in 1..Len(f) |->
        [date |-> f[i].date, daily_net |-> f[i].daily_net, balance |-> f[i].balance,
         abs_expense |-> Abs(f[i].daily_net)]]

\* forecast_df[forecast_df["daily_net"] < 0] with the abs_expense column
ExpenseDays(f) ==
    LET Neg(r) == r.daily_net < 0
    IN  WithAbsExpense(SelectSeq(f, Neg))

\* sort_values("abs_expense", ascending=False): the default sort is not stable,
\* so every order of the rows that is non-increasing in the key is an outcome
RECURSIVE DescOrders(_, _)
DescOrders(s, idx) ==
    IF idx = {} THEN {<<>>}
    ELSE LET tops == {i \in idx : \A j \in idx : s[j].abs_expense <= s[i].abs_expense}
         IN  UNION {{<<s[i]>> \o t : t \in DescOrders(s, idx \ {i})} : i \in tops}

\* .head(n)
HeadRowsOneMore(s, n) == SubSeq(s, 1, IF Len(s) < n + 1 THEN Len(s) ELSE n + 1)

HeadRows(s, n) == SubSeq(s, 1, IF Len(s) < n THEN Len(s) ELSE n)

TopExpenseDays(f) ==
    LET e == ExpenseDays(f)
    IN  {HeadRows(o, TopN) : o \in DescOrders(e, DOMAIN e)}

(***************************************************************************)
(* Lines 104-167: recurring expenses.                                      *)
(***************************************************************************)
\* df[df["type"].str.lower() == "expense"]
ExpensesOnly(d) ==
    LET IsExpense(r) == Lower(r.type) = "expense"
    IN  SelectSeq(d, IsExpense)

\* the keys of expenses_only.groupby("client_or_vendor"), sorted; NaN keys are dropped
GroupKeys(e) ==
    LET Present(v) == \E i \in DOMAIN e : e[i].client_or_vendor = v
    IN  SelectSeq(VendorOrder, Present)

VendorGroup(e, vendor) ==
    LET Same(r) == r.client_or_vendor = vendor
    IN  SelectSeq(e, Same)

\* group.sort_values("date")
RECURSIVE InsertByDate(_, _)
InsertByDate(s, x) ==
    IF s = <<>> THEN <<x>>
    ELSE IF x.date < s[1].date THEN <<x>> \o s
    ELSE <<s[1]>> \o InsertByDate(Tail(s), x)

RECURSIVE SortPrefixByDate(_, _)
SortPrefixByDate(g, n) ==
    IF n = 0 THEN <<>> ELSE InsertByDate(SortPrefixByDate(g, n - 1), g[n])

SortByDate(g) == SortPrefixByDate(g, Len(g))

\* gaps = [(dates[i + 1] - dates[i]).days ...]
Gaps(dates) == [i \in 1..(Len(dates) - 1) |-> dates[i + 1] - dates[i]]

\* lines 133-140, on avg_gap = num / den
FreqLabelContiguous(num, den) ==
    IF MinGap * den <= num /\ num < 10 * den THEN "Weekly-ish"
    ELSE IF 10 * den <= num /\ num <= 20 * den THEN "Bi-weekly-ish"
    ELSE IF 25 * den <= num /\ num <= 35 * den THEN "Monthly-ish"
    ELSE "Recurring"

FreqLabel(num, den) ==
    IF 5 * den <= num /\ num <= 9 * den THEN "Weekly-ish"
    ELSE IF 10 * den <= num /\ num <= 20 * den THEN "Bi-weekly-ish"
    ELSE IF 25 * den <= num /\ num <= 35 * den THEN "Monthly-ish"
    ELSE "Recurring"

\* line 110 and line 115
TooFewTwo(n) == n < MinGroup - 1

TooFew(n) == n < MinGroup

\* line 125, on avg_gap = num / den
OutsideWindow(num, den) == num < MinGap * den \/ num > MaxGap * den

\* one pass of the loop body (lines 108-151): the records it appends
VendorRecords(e, vendor) ==
    LET group == SortByDate(VendorGroup(e, vendor))
        dates == [i \in 1..Len(group) |-> group[i].date]
        gaps == Gaps(dates)
        num == SeqSum(gaps)
        den == Len(gaps)
        last_date == dates[Len(dates)]
    IN  IF vendor = NaN THEN <<>>
        ELSE IF TooFew(Len(VendorGroup(e, vendor))) THEN <<>>
        ELSE IF TooFew(Len(dates)) THEN <<>>
        ELSE IF gaps = <<>> THEN <<>>
        ELSE IF OutsideWindow(num, den) THEN <<>>
        ELSE <<[vendor |-> vendor,
                avg_gap_days |-> RoundHalfEven(10 * num, den),
                frequency |-> FreqLabel(num, den),
                avg_amount |-> RoundHalfEven(
                    100 * SeqSum([i \in 1..Len(group) |-> group[i].amount]), Len(group)),
                last_payment_date |-> last_date,
                next_expected_date |-> last_date + RoundHalfEven(num, den)]>>

RECURSIVE RecurringRecords(_, _)
RecurringRecords(e, keys) ==
    IF keys = <<>> THEN <<>>
    ELSE VendorRecords(e, keys[1]) \o RecurringRecords(e, Tail(keys))

\* sort_values(["next_expected_date", "avg_amount"], ascending=[True, False]):
\* a sort on several keys is stable
RecurringBefore(x, y) ==
    \/ x.next_expected_date < y.next_expected_date
    \/ /\ x.next_expected_date = y.next_expected_date
       /\ x.avg_amount > y.avg_amount

RECURSIVE InsertRecurring(_, _)
InsertRecurring(s, x) ==
    IF s = <<>> THEN <<x>>
    ELSE IF RecurringBefore(x, s[1]) THEN <<x>> \o s
    ELSE <<s[1]>> \o InsertRecurring(Tail(s), x)

RECURSIVE SortPrefixRecurring(_, _)
SortPrefixRecurring(r, n) ==
    IF n = 0 THEN <<>> ELSE InsertRecurring(SortPrefixRecurring(r, n - 1), r[n])

RecurringDf(d) ==
    LET e == ExpensesOnly(d)
        recurring_records == RecurringRecords(e, GroupKeys(e))
    IN  SortPrefixRecurring(recurring_records, Len(recurring_records))

(***************************************************************************)
(* Line 180: the lowest projected balance.                                 *)
(***************************************************************************)
LowestBalance(f) ==
    CHOOSE b \in {f[i].balance : i \in DOMAIN f} :
        \A i \in DOMAIN f : b <= f[i].balance

(***************************************************************************)
(* Lines 262-298: late-paying clients.                                     *)
(***************************************************************************)
\* inv.dropna(subset=["paid_date"])
Paid(inv) ==
    LET HasPaidDate(r) == r.paid_date # NaT
    IN  SelectSeq(inv, HasPaidDate)

\* (paid["paid_date"] - paid["due_date"]).dt.days
DelayDays(r) == r.paid_date - r.due_date

\* the keys of paid.groupby("client"), sorted
ClientKeys(paid) ==
    LET Present(c) == \E i \in DOMAIN paid : paid[i].client = c
    IN  SelectSeq(ClientOrder, Present)

\* .mean().reset_index(): one row per client, the mean kept as sum / count
ClientMean(paid, client) ==
    LET Same(r) == r.client = client
        g == SelectSeq(paid, Same)
    IN  [client |-> client,
         delay_sum |-> SeqSum([i \in 1..Len(g) |-> DelayDays(g[i])]),
         delay_count |-> Len(g)]

ClientMeans(paid) ==
    LET keys == ClientKeys(paid)
    IN  [i \in 1..Len(keys) |-> ClientMean(paid, keys[i])]

\* sort_values("delay_days", ascending=False): every non-increasing order
RECURSIVE MeanDescOrders(_, _)
MeanDescOrders(s, idx) ==
    IF idx = {} THEN {<<>>}
    ELSE LET tops == {i \in idx : \A j \in idx :
                        s[j].delay_sum * s[i].delay_count
                            <= s[i].delay_sum * s[j].delay_count}
         IN  UNION {{<<s[i]>> \o t : t \in MeanDescOrders(s, idx \ {i})} : i \in tops}

\* late_stats[late_stats["delay_days"] > 0]
LateOnlyNonNegative(s) ==
    LET Late(r) == r.delay_sum >= 0
    IN  SelectSeq(s, Late)

LateOnly(s) ==
    LET Late(r) == r.delay_sum > 0
    IN  SelectSeq(s, Late)

\* late_stats["delay_days"].round(1), in tenths of a day
RoundedStats(s) ==
    [i \in 1..Len(s) |->
        [client |-> s[i].client,
         delay_days |-> RoundHalfEven(10 * s[i].delay_sum, s[i].delay_count)]]

\* the outcomes of lines 283-289
LateMeans(paid) ==
    LET m == ClientMeans(paid)
    IN  {LateOnly(o) : o \in MeanDescOrders(m, DOMAIN m)}

(***************************************************************************)
(* The explored inputs.                                                    *)
(***************************************************************************)
Row(date, type, amount, vendor) ==
    [date |-> date, type |-> type, amount |-> amount, client_or_vendor |-> vendor]

InvRow(client, due, paid) == [client |-> client, due_date |-> due, paid_date |-> paid]

File(columns, rows) == [present |-> TRUE, columns |-> columns, rows |-> rows]

NoFile == [present |-> FALSE, columns |-> {}, rows |-> <<>>]

AllCols == {"date", "type", "amount", "category", "client_or_vendor", "notes"}
AllInvoiceCols == {"invoice_id", "client", "issue_date", "due_date", "paid_date", "amount"}

SeqsUpTo(S, n) == UNION {[1..k -> S] : k \in 1..n}

Reverse(s) == [i \in 1..Len(s) |-> s[Len(s) + 1 - i]]

\* every ledger of up to MaxRows rows over a few dates around the horizon's end
SmallRowSet ==
    UNION {{Row(d, t, a, "AWS") : a \in IF d = 10 THEN {2, 3} ELSE {2}} :
            d \in {10, 99, 100}, t \in {"income", "Expense", "refund"}}

SmallLedgers == SeqsUpTo(SmallRowSet, MaxRows)

\* one vendor paid n times, the gaps alternating g1, g2, among other rows
GapSet == {0, 4, 5, 9, 10, 20, 21, 24, 25, 35, 36, 45, 46}

PayDate(i, g1, g2) == 10 + (i \div 2) * g1 + ((i - 1) \div 2) * g2

PayTypes == <<"expense", "Expense", "EXPENSE">>

RecurringLedger(n, g1, g2) ==
    <<Row(10, "expense", 100, "Rent"), Row(10, "expense", 5, NaN),
      Row(300, "Income", 50, "AWS")>>
    \o [i \in 1..n |-> Row(PayDate(i, g1, g2), PayTypes[(i % 3) + 1], 10 + i, "AWS")]
    \o <<Row(17, "expense", 5, NaN), Row(70, "Expense", 100, "Rent"),
         Row(24, "expense", 5, NaN), Row(40, "expense", 100, "Rent")>>

RecurringLedgers ==
    UNION {{RecurringLedger(n, g1, g2), Reverse(RecurringLedger(n, g1, g2))} :
            n \in 0..MaxPay, g1 \in GapSet, g2 \in GapSet}

\* n expense days, stride days apart, and one income on the second of them
LongLedger(n, stride, mult, income) ==
    [i \in 1..n |-> Row(10 + stride * (i - 1), "expense", 1 + ((i * mult) % 7), NaN)]
    \o <<Row(10 + stride, "income", income, NaN)>>

LongLedgers ==
    {LongLedger(n, stride, mult, income) :
        n \in 1..MaxDays, stride \in {1, 9}, mult \in {1, 3}, income \in {3, 9}}

ValidLedgers == SmallLedgers \cup RecurringLedgers \cup LongLedgers

BadTransactionsFile == File({"date", "amount", "client_or_vendor"}, <<Row(10, NaN, 2, "AWS")>>)
HeaderOnlyFile == File(AllCols, <<>>)
NoVendorColumnFile == File(required_cols, <<Row(10, "expense", 2, NaN)>>)

OtherTransactionsFiles ==
    {NoFile, BadTransactionsFile, HeaderOnlyFile, NoVendorColumnFile}

TransactionsFiles ==
    OtherTransactionsFiles \cup {File(AllCols, l) : l \in ValidLedgers}

FewTransactionsFiles ==
    OtherTransactionsFiles \cup {File(AllCols, RecurringLedger(3, 9, 10))}

\* every invoice ledger of up to MaxInvRows rows, due on day 20
SmallInvoiceRowSet ==
    {InvRow(c, 20, p) : c \in {"Acme", "Zed"}, p \in {NaT, 17, 20, 21, 25}}

SmallInvoiceLedgers == SeqsUpTo(SmallInvoiceRowSet, MaxInvRows)

\* n invoices paid on the due date and one paid d days after it
BulkInvoiceLedger(n, d) ==
    [i \in 1..n |-> InvRow("Acme", 20 + i, 20 + i)]
    \o <<InvRow("Acme", 50, 50 + d), InvRow("Zed", 50, 53)>>

BulkInvoiceLedgers == {BulkInvoiceLedger(n, d) : n \in 0..MaxBulk, d \in {-1, 1, 2}}

BadInvoicesFile == File({"client", "due_date", "amount"}, <<InvRow("Acme", 20, 21)>>)

InvoicesFiles ==
    {NoFile, BadInvoicesFile, File(AllInvoiceCols, <<>>)}
    \cup {File(AllInvoiceCols, l) : l \in SmallInvoiceLedgers \cup BulkInvoiceLedgers}

Init ==
    /\ \/ /\ transactions_file \in TransactionsFiles
          /\ invoices_file = BadInvoicesFile
          /\ starting_balance \in {-4, 5}
       \/ /\ transactions_file \in FewTransactionsFiles
          /\ invoices_file \in InvoicesFiles
          /\ starting_balance = 5
    /\ threshold = 1
    /\ pc = "check_file"
    /\ halt = "none"
    /\ df = <<>>
    /\ forecast_df = <<>>
    /\ risk_days = <<>>
    /\ top_expense_days = <<>>
    /\ recurring_df = <<>>
    /\ lowest_balance = <<>>
    /\ late_view = "not_rendered"
    /\ late_means = <<>>
    /\ late_stats = <<>>

(***************************************************************************)
(* The script, one action per step.                                        *)
(***************************************************************************)
Outputs == <<forecast_df, risk_days, top_expense_days, recurring_df, lowest_balance>>
LateTab == <<late_view, late_means, late_stats>>
Inputs == <<transactions_file, invoices_file, starting_balance, threshold>>

\* lines 62-64
NoTransactionsFile ==
    /\ pc = "check_file"
    /\ ~transactions_file.present
    /\ pc' = "stopped"
    /\ halt' = "st.stop"
    /\ UNCHANGED <<Inputs, df, Outputs, LateTab>>

\* line 67
LoadTransactions ==
    /\ pc = "check_file"
    /\ transactions_file.present
    /\ df' = transactions_file.rows
    /\ pc' = "check_cols"
    /\ UNCHANGED <<Inputs, halt, Outputs, LateTab>>

\* lines 69-72
TransactionsSchemaError ==
    /\ pc = "check_cols"
    /\ ~(required_cols \subseteq transactions_file.columns)
    /\ pc' = "stopped"
    /\ halt' = "st.stop"
    /\ UNCHANGED <<Inputs, df, Outputs, LateTab>>

\* lines 69-70
TransactionsSchemaOk ==
    /\ pc = "check_cols"
    /\ required_cols \subseteq transactions_file.columns
    /\ pc' = "normalize"
    /\ UNCHANGED <<Inputs, halt, df, Outputs, LateTab>>

\* lines 74-79
Normalize ==
    /\ pc = "normalize"
    /\ df # <<>>
    /\ df' = WithSignedAmount(df)
    /\ pc' = "forecast"
    /\ UNCHANGED <<Inputs, halt, Outputs, LateTab>>

\* lines 76-79 on a frame without rows: DataFrame.apply returns a frame, and the
\* assignment of a frame to one column raises, in the pandas versions where apply
\* does not reduce an empty frame
NormalizeEmptyRaises ==
    /\ pc = "normalize"
    /\ df = <<>>
    /\ pc' = "stopped"
    /\ halt' = "exception"
    /\ UNCHANGED <<Inputs, df, Outputs, LateTab>>

\* lines 76-79 on a frame without rows, in the pandas versions where apply
\* reduces it to an empty column
NormalizeEmptyPasses ==
    /\ pc = "normalize"
    /\ df = <<>>
    /\ pc' = "forecast"
    /\ UNCHANGED <<Inputs, halt, df, Outputs, LateTab>>

\* lines 82-84 on a frame without rows: min() is NaT and date_range raises
ForecastEmptyRaises ==
    /\ pc = "forecast"
    /\ df = <<>>
    /\ pc' = "stopped"
    /\ halt' = "exception"
    /\ UNCHANGED <<Inputs, df, Outputs, LateTab>>

\* lines 82-89
Forecast ==
    /\ pc = "forecast"
    /\ df # <<>>
    /\ forecast_df' = BuildForecast(df, starting_balance)
    /\ pc' = "risk"
    /\ UNCHANGED <<Inputs, halt, df, risk_days, top_expense_days, recurring_df,
                   lowest_balance, LateTab>>

\* line 92
Risk ==
    /\ pc = "risk"
    /\ risk_days' = RiskDays(forecast_df, threshold)
    /\ pc' = "expenses"
    /\ UNCHANGED <<Inputs, halt, df, forecast_df, top_expense_days, recurring_df,
                   lowest_balance, LateTab>>

\* lines 95-101
BigExpenseDays ==
    /\ pc = "expenses"
    /\ top_expense_days' \in TopExpenseDays(forecast_df)
    /\ pc' = "recurring"
    /\ UNCHANGED <<Inputs, halt, df, forecast_df, risk_days, recurring_df,
                   lowest_balance, LateTab>>

\* lines 104-107 without the optional column: groupby raises KeyError
RecurringKeyError ==
    /\ pc = "recurring"
    /\ "client_or_vendor" \notin transactions_file.columns
    /\ pc' = "stopped"
    /\ halt' = "exception"
    /\ UNCHANGED <<Inputs, df, Outputs, LateTab>>

\* lines 104-167
Recurring ==
    /\ pc = "recurring"
    /\ "client_or_vendor" \in transactions_file.columns
    /\ recurring_df' = RecurringDf(df)
    /\ pc' = "overview"
    /\ UNCHANGED <<Inputs, halt, df, forecast_df, risk_days, top_expense_days,
                   lowest_balance, LateTab>>

\* lines 176-211
Overview ==
    /\ pc = "overview"
    /\ lowest_balance' = <<LowestBalance(forecast_df)>>
    /\ pc' = "late"
    /\ UNCHANGED <<Inputs, halt, df, forecast_df, risk_days, top_expense_days,
                   recurring_df, LateTab>>

\* lines 262-263
LateNoFile ==
    /\ pc = "late"
    /\ ~invoices_file.present
    /\ late_view' = "upload_prompt"
    /\ pc' = "done"
    /\ UNCHANGED <<Inputs, halt, df, Outputs, late_means, late_stats>>

\* lines 265-271
LateSchemaError ==
    /\ pc = "late"
    /\ invoices_file.present
    /\ ~(required_invoice_cols \subseteq invoices_file.columns)
    /\ late_view' = "schema_error"
    /\ pc' = "done"
    /\ UNCHANGED <<Inputs, halt, df, Outputs, late_means, late_stats>>

\* lines 273-279
LateNoPaid ==
    /\ pc = "late"
    /\ invoices_file.present
    /\ required_invoice_cols \subseteq invoices_file.columns
    /\ Paid(invoices_file.rows) = <<>>
    /\ late_view' = "no_paid"
    /\ pc' = "done"
    /\ UNCHANGED <<Inputs, halt, df, Outputs, late_means, late_stats>>

\* lines 281-292
LateNoLate ==
    /\ pc = "late"
    /\ invoices_file.present
    /\ required_invoice_cols \subseteq invoices_file.columns
    /\ Paid(invoices_file.rows) # <<>>
    /\ late_means' \in LateMeans(Paid(invoices_file.rows))
    /\ late_means' = <<>>
    /\ late_view' = "no_late"
    /\ pc' = "done"
    /\ UNCHANGED <<Inputs, halt, df, Outputs, late_stats>>

\* lines 281-298
LateTable ==
    /\ pc = "late"
    /\ invoices_file.present
    /\ required_invoice_cols \subseteq invoices_file.columns
    /\ Paid(invoices_file.rows) # <<>>
    /\ late_means' \in LateMeans(Paid(invoices_file.rows))
    /\ late_means' # <<>>
    /\ late_stats' = RoundedStats(late_means')
    /\ late_view' = "table"
    /\ pc' = "done"
    /\ UNCHANGED <<Inputs, halt, df, Outputs>>

Next ==
    \/ NoTransactionsFile
    \/ LoadTransactions
    \/ TransactionsSchemaError
    \/ TransactionsSchemaOk
    \/ Normalize
    \/ NormalizeEmptyRaises
    \/ NormalizeEmptyPasses
    \/ ForecastEmptyRaises
    \/ Forecast
    \/ Risk
    \/ BigExpenseDays
    \/ RecurringKeyError
    \/ Recurring
    \/ Overview
    \/ LateNoFile
    \/ LateSchemaError
    \/ LateNoPaid
    \/ LateNoLate
    \/ LateTable

Spec == Init /\ [][Next]_vars

(***************************************************************************)
(* Properties.                                                             *)
(***************************************************************************)
Normalized == df # <<>> /\ "signed_amount" \in DOMAIN df[1]

RECURSIVE SumSigned(_, _)
SumSigned(d, S) ==
    IF S = {} THEN 0
    ELSE LET j == CHOOSE j \in S : TRUE
         IN  d[j].signed_amount + SumSigned(d, S \ {j})

\* C1: the balance column is the running sum of daily_net seeded by the starting
\* balance: balance[0] = starting_balance + daily_net[0], and every later balance is
\* the previous balance plus that day's daily_net.
C1_BalanceIsRunningSum ==
    forecast_df # <<>> =>
        /\ forecast_df[1].balance = starting_balance + forecast_df[1].daily_net
        /\ \A i \in 2..Len(forecast_df) :
              forecast_df[i].balance = forecast_df[i - 1].balance + forecast_df[i].daily_net

C1_Witness ==
    /\ Len(forecast_df) > 1
    /\ starting_balance < 0
    /\ forecast_df[1].daily_net # 0
    /\ \E i \in 2..Len(forecast_df) : forecast_df[i].daily_net < 0
    /\ \E i \in 2..Len(forecast_df) : forecast_df[i].daily_net > 0

\* C2: on every forecast date daily_net is the sum of signed_amount over the
\* transactions dated exactly on that date (0 when there is none), and the sum of
\* daily_net over the forecast is the sum of signed_amount over the transactions dated
\* from the earliest date to 89 days after it: a later transaction adds nothing.
C2_DailyNetIsSumOnDate ==
    forecast_df # <<>> =>
        /\ \A i \in DOMAIN forecast_df :
              forecast_df[i].daily_net =
                  SumSigned(df, {j \in DOMAIN df : df[j].date = forecast_df[i].date})
        /\ \A k \in DOMAIN df :
              (\A j \in DOMAIN df : df[k].date <= df[j].date) =>
                  SeqSum([i \in DOMAIN forecast_df |-> forecast_df[i].daily_net]) =
                      SumSigned(df, {j \in DOMAIN df : df[j].date <= df[k].date + 89})

C2_Witness ==
    /\ forecast_df # <<>>
    /\ \E j, k \in DOMAIN df : j # k /\ df[j].date = df[k].date
                                /\ df[j].signed_amount # -df[k].signed_amount
    /\ \E j \in DOMAIN df : df[j].date > forecast_df[1].date + 89 /\ df[j].signed_amount # 0
    /\ \E i \in DOMAIN forecast_df : forecast_df[i].daily_net = 0

\* C3 as stated: signed_amount is amount when the type, lower-cased, is "income", and
\* -amount for every other type.
C3_NegativeUnlessIncome ==
    Normalized =>
        \A i \in DOMAIN df :
            df[i].signed_amount =
                IF Lower(df[i].type) = "income" THEN df[i].amount ELSE -df[i].amount

\* C3 as amended: signed_amount is -amount when the type, lower-cased, is "expense",
\* and amount for every other type.
C3_PositiveUnlessExpense ==
    Normalized =>
        \A i \in DOMAIN df :
            df[i].signed_amount =
                IF Lower(df[i].type) = "expense" THEN -df[i].amount ELSE df[i].amount

C3_Witness ==
    /\ Normalized
    /\ \E i \in DOMAIN df : df[i].type = "refund" /\ df[i].signed_amount > 0
    /\ \E i \in DOMAIN df : df[i].type = "Expense" /\ df[i].signed_amount < 0

\* C4: once built, the forecast has exactly 90 entries, starts on the earliest
\* transaction date and advances one day per entry; every ledger with rows gets one.
C4_NinetyConsecutiveDays ==
    /\ pc \in {"risk", "expenses", "recurring", "overview", "late", "done"} =>
          forecast_df # <<>>
    /\ forecast_df # <<>> =>
          /\ Len(forecast_df) = 90
          /\ \E j \in DOMAIN df : df[j].date = forecast_df[1].date
          /\ \A j \in DOMAIN df : forecast_df[1].date <= df[j].date
          /\ \A i \in 1..(Len(forecast_df) - 1) :
                forecast_df[i + 1].date = forecast_df[i].date + 1
          /\ forecast_df[Len(forecast_df)].date = forecast_df[1].date + 89

C4_Witness ==
    /\ forecast_df # <<>>
    /\ Len(df) > 10
    /\ df[1].date # forecast_df[1].date
    /\ \E j \in DOMAIN df : df[j].date > forecast_df[1].date + 89

\* the expense transactions of a vendor, and their first and last date
VendorExpenses(v) ==
    {j \in DOMAIN df : Lower(df[j].type) = "expense" /\ df[j].client_or_vendor = v}

FirstDate(S) == CHOOSE d \in {df[j].date : j \in S} : \A j \in S : d <= df[j].date
LastDate(S) == CHOOSE d \in {df[j].date : j \in S} : \A j \in S : df[j].date <= d

\* C5: a row is emitted only for a non-null counterparty with at least 3 expense
\* transactions whose mean consecutive gap, (last date - first date) / (count - 1),
\* lies in [5, 45]; and no counterparty gets two rows.
C5_RecurrenceOnlyInWindow ==
    \A i \in DOMAIN recurring_df :
        LET v == recurring_df[i].vendor
            S == VendorExpenses(v)
            n == Cardinality(S)
        IN  /\ v # NaN
            /\ n >= 3
            /\ 5 * (n - 1) <= LastDate(S) - FirstDate(S)
            /\ LastDate(S) - FirstDate(S) <= 45 * (n - 1)
            /\ \A k \in DOMAIN recurring_df : k # i => recurring_df[k].vendor # v

C5_Witness ==
    /\ Len(recurring_df) = 2
    /\ \E i \in DOMAIN recurring_df :
          /\ recurring_df[i].vendor = "AWS"
          /\ Cardinality(VendorExpenses("AWS")) = 3
          /\ \E j \in DOMAIN df : df[j].client_or_vendor = "AWS"
                                   /\ Lower(df[j].type) # "expense"

\* the paid invoices of a client, and the sum of their delays in days
PaidInvoices(c) ==
    {j \in DOMAIN invoices_file.rows :
        invoices_file.rows[j].client = c /\ invoices_file.rows[j].paid_date # NaT}

RECURSIVE SumDelays(_)
SumDelays(S) ==
    IF S = {} THEN 0
    ELSE LET j == CHOOSE j \in S : TRUE
         IN  (invoices_file.rows[j].paid_date - invoices_file.rows[j].due_date)
                + SumDelays(S \ {j})

\* C6 as stated: every row of the late-client table carries a delay_days value, as
\* emitted after rounding to one decimal place, that is strictly greater than 0.
C6_EmittedDelayPositive ==
    \A i \in DOMAIN late_stats : late_stats[i].delay_days > 0

\* C6 as amended: every row of the late-client table is for a client whose mean
\* delay before rounding is strictly greater than 0, and the value emitted after
\* rounding to one decimal place is greater than or equal to 0.
C6_UnroundedDelayPositive ==
    /\ Len(late_stats) = Len(late_means)
    /\ late_view = "table" <=> late_stats # <<>>
    /\ \A i \in DOMAIN late_stats :
          /\ SumDelays(PaidInvoices(late_stats[i].client)) > 0
          /\ late_stats[i].delay_days >= 0
          /\ \A k \in DOMAIN late_stats : k # i => late_stats[k].client # late_stats[i].client

C6_Witness ==
    /\ late_view = "table"
    /\ \E i \in DOMAIN late_stats : late_stats[i].delay_days = 0
    /\ \E i \in DOMAIN late_stats : late_stats[i].delay_days > 0

\* C7: a schema error in one dataset halts only that dataset's pipeline: after a bad
\* transaction file the payment-delay analysis of a valid invoice file with paid
\* invoices is still produced, and after a bad invoice file the transaction outputs are all there.
C7_DatasetsFailIndependently ==
    /\ (/\ pc \in {"stopped", "done"}
        /\ transactions_file.present
        /\ ~(required_cols \subseteq transactions_file.columns)
        /\ invoices_file.present
        /\ required_invoice_cols \subseteq invoices_file.columns
        /\ Paid(invoices_file.rows) # <<>>)
          => late_view \in {"no_late", "table"}
    /\ (/\ pc = "done"
        /\ invoices_file.present
        /\ ~(required_invoice_cols \subseteq invoices_file.columns))
          => /\ late_view = "schema_error"
             /\ forecast_df = BuildForecast(df, starting_balance)
             /\ lowest_balance # <<>>

\* C8: with zero transactions (no file, or a file with the required columns and no
\* rows) the run is stopped by a guard before any step of the analysis: it never
\* reaches normalisation or the forecast step, and it raises nothing.
C8_EmptyLedgerSkipped ==
    (\/ ~transactions_file.present
     \/ /\ required_cols \subseteq transactions_file.columns
        /\ transactions_file.rows = <<>>)
      => /\ pc \in {"check_file", "check_cols", "stopped"}
         /\ halt # "exception"
         /\ forecast_df = <<>>

\* the forecast days with a negative net
NegativeDays == {i \in DOMAIN forecast_df : forecast_df[i].daily_net < 0}

InTable(i) ==
    \E k \in DOMAIN top_expense_days : top_expense_days[k].date = forecast_df[i].date

TopExpenseTableRight ==
    pc \in {"recurring", "overview", "late", "done"} =>
        /\ Len(top_expense_days) =
              IF Cardinality(NegativeDays) < 10 THEN Cardinality(NegativeDays) ELSE 10
        /\ \A k \in DOMAIN top_expense_days :
              /\ top_expense_days[k].daily_net < 0
              /\ \E i \in NegativeDays :
                    /\ forecast_df[i].date = top_expense_days[k].date
                    /\ forecast_df[i].daily_net = top_expense_days[k].daily_net
                    /\ forecast_df[i].balance = top_expense_days[k].balance
              /\ \A m \in DOMAIN top_expense_days :
                    m # k => top_expense_days[m].date # top_expense_days[k].date
              /\ k > 1 =>
                    Abs(top_expense_days[k - 1].daily_net) >= Abs(top_expense_days[k].daily_net)
              /\ \A i \in NegativeDays :
                    ~InTable(i) =>
                        Abs(forecast_df[i].daily_net) <= Abs(top_expense_days[k].daily_net)

\* C9: the top-expense-days table holds only forecast days with daily_net < 0, has
\* min(10, k) rows for k such days, is in non-increasing order of |daily_net|, leaves
\* out no negative day larger than one it holds, and building it leaves the forecast
\* unchanged.
C9_TopExpenseDays ==
    /\ []TopExpenseTableRight
    /\ [][pc = "expenses" => forecast_df' = forecast_df]_vars

C9_Witness ==
    /\ pc = "recurring"
    /\ Len(top_expense_days) = 10
    /\ Cardinality(NegativeDays) >= 12
    /\ top_expense_days[1].date > top_expense_days[2].date
    /\ \E i \in NegativeDays :
          ~InTable(i) /\ forecast_df[i].daily_net = top_expense_days[10].daily_net

\* the mean gap of an emitted row is GapNum(v) / GapDen(v)
GapNum(v) == LastDate(VendorExpenses(v)) - FirstDate(VendorExpenses(v))
GapDen(v) == Cardinality(VendorExpenses(v)) - 1

LabelInBands(r) ==
    LET num == GapNum(r.vendor)
        den == GapDen(r.vendor)
    IN  /\ r.frequency = "Weekly-ish" <=> (5 * den <= num /\ num <= 9 * den)
        /\ r.frequency = "Bi-weekly-ish" <=> (10 * den <= num /\ num <= 20 * den)
        /\ r.frequency = "Monthly-ish" <=> (25 * den <= num /\ num <= 35 * den)

\* C10 as stated: the label follows the bands [5,9], [10,20], [25,35], and it is
\* "Recurring" exactly when the average gap lies in (20,25) or (35,45].
C10_RecurringOnlyInTwoBands ==
    \A i \in DOMAIN recurring_df :
        LET r == recurring_df[i]
            num == GapNum(r.vendor)
            den == GapDen(r.vendor)
        IN  /\ LabelInBands(r)
            /\ r.frequency = "Recurring" <=>
                  \/ 20 * den < num /\ num < 25 * den
                  \/ 35 * den < num /\ num <= 45 * den

\* C10 as amended: the label follows the bands [5,9], [10,20], [25,35], and it is
\* "Recurring" exactly when the average gap lies in (9,10), (20,25) or (35,45].
C10_RecurringInThreeBands ==
    \A i \in DOMAIN recurring_df :
        LET r == recurring_df[i]
            num == GapNum(r.vendor)
            den == GapDen(r.vendor)
        IN  /\ LabelInBands(r)
            /\ r.frequency = "Recurring" <=>
                  \/ 9 * den < num /\ num < 10 * den
                  \/ 20 * den < num /\ num < 25 * den
                  \/ 35 * den < num /\ num <= 45 * den

C10_Witness ==
    \E i \in DOMAIN recurring_df :
        /\ recurring_df[i].frequency = "Recurring"
        /\ 9 * GapDen(recurring_df[i].vendor) < GapNum(recurring_df[i].vendor)
        /\ GapNum(recurring_df[i].vendor) < 10 * GapDen(recurring_df[i].vendor)

====
